---------------------------- MODULE Spec2Model ----------------------------
(***************************************************************************)
(* A model of scripts/collect_portraits.py: the command line is resolved   *)
(* to a sorted, deduplicated identifier list; for each identifier the      *)
(* bucket is listed under the identifier's prefix, the largest image blob  *)
(* is downloaded and decoded, and two JPEG thumbnails are written.         *)
(*                                                                         *)
(* Strings are sequences of one-character strings, so that strip, rstrip,  *)
(* the path suffix and the lexicographic order are computed, not assumed.  *)
(***************************************************************************)
EXTENDS Integers, Sequences, FiniteSets, TLC

VARIABLES
    argv_ids,     \* args.identifiers: the --id values, in command-line order
    argv_file,    \* args.from_file: [given, lines] (lines = read_text().splitlines())
    bucket,       \* the object store: a sequence of blobs [name, size, data]
    pc,           \* position of the single thread of control
    identifiers,  \* main: the resolved identifier list
    client,       \* main: TRUE once storage.Client() has been constructed
    idx,          \* main: 1-based position of the for loop in identifiers
    blobs,        \* process_identifier: the filtered listing
    blob,         \* process_identifier: the chosen blob
    image,        \* process_identifier: the image returned by download_image
    ti,           \* process_identifier: 1-based position in THUMBNAILS
    dirs,         \* local filesystem: the directories that exist
    files,        \* local filesystem: file key -> content
    log,          \* history: the external calls issued and their outcomes
    raised,       \* the exception that ended the run ("none" if none)
    exitStatus    \* the process exit status (-1 while running)

vars == <<argv_ids, argv_file, bucket, pc, identifiers, client, idx, blobs,
          blob, image, ti, dirs, files, log, raised, exitStatus>>

----------------------------------------------------------------------------
(* Bounds of the model.                                                    *)

MaxIds == 2
MaxLines == 2
MaxRunIds == 2
MaxBlobs == 3
MaxSmallDim == 4

SeqsUpTo(S, n) == UNION {[1..k -> S] : k \in 0..n}

----------------------------------------------------------------------------
(* Characters and strings.                                                 *)

\* Code points of the characters the model uses (Python compares str by code point).
Ord(c) ==
    CASE c = "\t" -> 9
      [] c = " " -> 32
      [] c = "." -> 46
      [] c = "/" -> 47
      [] c = "B" -> 66
      [] c = "G" -> 71
      [] c = "J" -> 74
      [] c = "P" -> 80
      [] c = "a" -> 97
      [] c = "b" -> 98
      [] c = "e" -> 101
      [] c = "f" -> 102
      [] c = "g" -> 103
      [] c = "i" -> 105
      [] c = "j" -> 106
      [] c = "n" -> 110
      [] c = "o" -> 111
      [] c = "p" -> 112
      [] c = "t" -> 116
      [] c = "u" -> 117
      [] c = "w" -> 119
      [] c = "x" -> 120
      [] OTHER -> 0

\* str.isspace for the characters of the model.
IsSpace(c) == c \in {" ", "\t"}

RECURSIVE LStrip(_)
LStrip(s) ==
    IF s = <<>> THEN s
    ELSE IF IsSpace(Head(s)) THEN LStrip(Tail(s)) ELSE s

RECURSIVE RStrip(_)
RStrip(s) ==
    IF s = <<>> THEN s
    ELSE IF IsSpace(s[Len(s)]) THEN RStrip(SubSeq(s, 1, Len(s) - 1)) ELSE s

\* str.strip()
Strip(s) == RStrip(LStrip(s))

\* str.rstrip('/')
RECURSIVE RStripSlash(_)
RStripSlash(s) ==
    IF s = <<>> THEN s
    ELSE IF s[Len(s)] = "/" THEN RStripSlash(SubSeq(s, 1, Len(s) - 1)) ELSE s

\* str.endswith("/")
EndsWithSlash(s) == s # <<>> /\ s[Len(s)] = "/"

\* str.startswith(p)
StartsWith(s, p) == Len(p) <= Len(s) /\ SubSeq(s, 1, Len(p)) = p

\* str.lower() for one character of the model.
LowerChar(c) ==
    CASE c = "B" -> "b"
      [] c = "G" -> "g"
      [] c = "J" -> "j"
      [] c = "P" -> "p"
      [] OTHER -> c

\* str.lower()
Lower(s) == [i \in 1..Len(s) |-> LowerChar(s[i])]

\* s < t in Python's str order: lexicographic by code point, a proper prefix first.
RECURSIVE LexLess(_, _)
LexLess(s, t) ==
    IF t = <<>> THEN FALSE
    ELSE IF s = <<>> THEN TRUE
    ELSE IF Ord(Head(s)) < Ord(Head(t)) THEN TRUE
    ELSE IF Ord(Head(s)) > Ord(Head(t)) THEN FALSE
    ELSE LexLess(Tail(s), Tail(t))

\* The least string of a non-empty set.
LexMin(S) == CHOOSE s \in S : \A t \in S \ {s} : LexLess(s, t)

\* A faulty variant of Sorted: the set is listed in descending order.
RECURSIVE SortedDescending(_)
SortedDescending(S) ==
    IF S = {} THEN <<>>
    ELSE Append(SortedDescending(S \ {LexMin(S)}), LexMin(S))

\* sorted(S) of a set of strings.
RECURSIVE Sorted(_)
Sorted(S) ==
    IF S = {} THEN <<>>
    ELSE <<LexMin(S)>> \o Sorted(S \ {LexMin(S)})

Range(q) == {q[i] : i \in DOMAIN q}

----------------------------------------------------------------------------
(* Identifier resolution.                                                  *)

NoFile == [given |-> FALSE, lines |-> <<>>]

NonEmptyStripped(v) == Strip(v) # <<>>

StripAll(q) == [i \in 1..Len(q) |-> Strip(q[i])]

\* A faulty variant of NoIdentifiers: the empty list is let through.
NeverEmpty(deduped) == FALSE

\* `if not deduped`
NoIdentifiers(deduped) == deduped = <<>>

\* build_identifier_list up to line 98: the file's lines first, then the --id
\* values, each stripped and kept when non-empty; then sorted(set(...)).
Deduped(ids, file) ==
    LET fromFile == IF file.given
                    THEN StripAll(SelectSeq(file.lines, NonEmptyStripped))
                    ELSE <<>>
        fromArgs == IF ids # <<>>
                    THEN StripAll(SelectSeq(ids, NonEmptyStripped))
                    ELSE <<>>
    IN  Sorted(Range(fromFile \o fromArgs))

----------------------------------------------------------------------------
(* Blob names and selection.                                               *)

\* IMAGE_EXTENSIONS
IMAGE_EXTENSIONS ==
    { <<".", "j", "p", "g">>, <<".", "j", "p", "e", "g">>, <<".", "p", "n", "g">>,
      <<".", "w", "e", "b", "p">>, <<".", "g", "i", "f">> }

\* The index of the last c in s, 0 if there is none (str.rfind, 1-based).
RFind(s, c) ==
    LET at == {i \in 1..Len(s) : s[i] = c}
    IN  IF at = {} THEN 0 ELSE CHOOSE i \in at : \A j \in at : j <= i

\* PurePath.name: the last component, trailing separators dropped.
PathName(s) ==
    LET t == RStripSlash(s)
        k == RFind(t, "/")
    IN  SubSeq(t, k + 1, Len(t))

\* PurePath.suffix: from the last dot of the name, unless the dot leads or ends it.
PathSuffix(s) ==
    LET n == PathName(s)
        k == RFind(n, ".")
    IN  IF 1 < k /\ k < Len(n) THEN SubSeq(n, k, Len(n)) ELSE <<>>

\* is_image_blob
IsImageBlob(name) == Lower(PathSuffix(name)) \in IMAGE_EXTENSIONS

\* The condition of the comprehension in process_identifier.
KeepBlob(b) == ~EndsWithSlash(b.name) /\ IsImageBlob(b.name)

\* `blob.size or 0`: size is <<>> (None) or <<n>>.
SizeKey(b) == IF b.size = <<>> THEN 0 ELSE b.size[1]

NoData == [body |-> "none", mode |-> "none", w |-> 0, h |-> 0]

NoBlob == [name |-> <<>>, size |-> <<>>, data |-> NoData]

\* A faulty variant of choose_primary_blob: the first blob of the listing is returned.
ChooseFirstBlob(bs) == IF bs = <<>> THEN NoBlob ELSE bs[1]

\* choose_primary_blob: max() returns the first of the greatest elements.
ChoosePrimaryBlob(bs) ==
    IF bs = <<>> THEN NoBlob
    ELSE bs[CHOOSE i \in 1..Len(bs) :
                /\ \A j \in 1..Len(bs) : SizeKey(bs[j]) <= SizeKey(bs[i])
                /\ \A j \in 1..(i - 1) : SizeKey(bs[j]) < SizeKey(bs[i])]

\* The prefix process_identifier lists.
Prefix(identifier) == RStripSlash(identifier) \o <<"/">>

\* bucket.list_blobs(prefix=prefix): the blobs whose name starts with the prefix.
ListBlobs(prefix) == SelectSeq(bucket, LAMBDA b : StartsWith(b.name, prefix))

----------------------------------------------------------------------------
(* Paths.                                                                  *)

\* args.output, a relative directory of one component.
OutputDir == << <<"o", "u", "t">> >>

\* The components of a path string: split at "/", empty and "." components dropped.
RECURSIVE Components(_)
Components(s) ==
    IF s = <<>> THEN <<>>
    ELSE LET cut == {i \in 1..Len(s) : s[i] = "/"}
             k == IF cut = {} THEN Len(s) + 1
                  ELSE CHOOSE i \in cut : \A j \in cut : i <= j
             first == SubSeq(s, 1, k - 1)
             rest == Components(SubSeq(s, k + 1, Len(s)))
         IN  IF first = <<>> \/ first = <<".">> THEN rest ELSE <<first>> \o rest

\* output_dir / identifier: an absolute identifier replaces output_dir.
PersonDir(identifier) ==
    IF identifier # <<>> /\ identifier[1] = "/"
    THEN << <<"/">> >> \o Components(identifier)
    ELSE OutputDir \o Components(identifier)

\* A faulty variant of THUMBNAILS: the two specifications in the other order.
THUMBNAILS_REVERSED ==
    << [name |-> "profile", size |-> <<256, 256>>, suffix |-> ".jpg"],
       [name |-> "cover", size |-> <<512, 512>>, suffix |-> ".jpg"] >>

\* THUMBNAILS
THUMBNAILS ==
    << [name |-> "cover", size |-> <<512, 512>>, suffix |-> ".jpg"],
       [name |-> "profile", size |-> <<256, 256>>, suffix |-> ".jpg"] >>

\* ThumbnailSpec.destination
Destination(spec, base) == [dir |-> base, name |-> spec.name \o spec.suffix]

\* The directories mkdir(parents=True) makes exist.
WithParents(path) == {SubSeq(path, 1, k) : k \in 1..Len(path)}

----------------------------------------------------------------------------
(* Images.                                                                 *)

\* What a file holds: the thumbnail's mode and size, who wrote it and from what
\* source size (history), and whether the write completed.
NoContent ==
    [by |-> <<>>, mode |-> "none", w |-> 0, h |-> 0, srcw |-> 0, srch |-> 0,
     complete |-> FALSE]

NoImage == [mode |-> "none", w |-> 0, h |-> 0, body |-> "none"]

Abs(n) == IF n < 0 THEN 0 - n ELSE n

\* A faulty variant of ThumbnailSize: the image is always resized to fit the box.
ThumbnailSizeEnlarging(w, h, box) ==
    IF box[1] * h >= w * box[2]
    THEN <<IF (box[2] * w) \div h < 1 THEN 1 ELSE (box[2] * w) \div h, box[2]>>
    ELSE <<box[1], IF (box[1] * h) \div w < 1 THEN 1 ELSE (box[1] * h) \div w>>

\* Image.thumbnail's preserve_aspect_ratio, in exact arithmetic: the size of a
\* w x h image after thumbnail(box).
ThumbnailSize(w, h, box) ==
    LET x == box[1]
        y == box[2]
        AtLeastOne(n) == IF n < 1 THEN 1 ELSE n
    IN  IF x >= w /\ y >= h THEN <<w, h>>
        ELSE IF x * h >= w * y
        THEN LET fl == (y * w) \div h
                 ce == IF fl * h = y * w THEN fl ELSE fl + 1
                 \* key(n) = |w/h - n/y|
                 best == IF Abs(w * y - fl * h) <= Abs(w * y - ce * h) THEN fl ELSE ce
             IN  <<AtLeastOne(best), y>>
        ELSE LET fl == (x * h) \div w
                 ce == IF fl * w = x * h THEN fl ELSE fl + 1
                 \* key(n) = 0 if n = 0, else |w/h - x/n|
                 best == IF fl = 0 THEN fl
                         ELSE IF Abs(w * fl - x * h) * ce <= Abs(w * ce - x * h) * fl
                         THEN fl ELSE ce
             IN  <<x, AtLeastOne(best)>>

\* The modes the JPEG encoder writes (Pillow's JpegImagePlugin RAWMODE); any other
\* mode makes Image.save(format="JPEG") raise OSError.
JpegWritable(mode) == mode \in {"1", "L", "RGB", "RGBX", "CMYK", "YCbCr"}

\* download_image's normalisation of the mode.
Normalised(mode) == IF mode \notin {"RGB", "RGBA"} THEN "RGB" ELSE mode

----------------------------------------------------------------------------
(* Inputs: command lines and bucket contents.                              *)

\* Raw --id values and file lines: empty, blank, padded, one a prefix of another.
RawValues ==
    { <<>>, <<" ">>, <<"a">>, <<" ", "a", "\t">>, <<"a", "/">>, <<"b">> }

FileArgs(values, n) ==
    {NoFile} \cup {[given |-> TRUE, lines |-> q] : q \in SeqsUpTo(values, n)}

Data(body, mode, w, h) == [body |-> body, mode |-> mode, w |-> w, h |-> h]

Blob(name, size, data) == [name |-> name, size |-> size, data |-> data]

\* Blobs under the prefix a/: a directory marker with an image suffix, a text
\* file, a dot-file, and images of several sizes, modes and states of repair.
BlobPool ==
    { Blob(<<"a", "/", "x", ".", "j", "p", "g", "/">>, <<90>>, NoData),
      Blob(<<"a", "/", "n", ".", "t", "x", "t">>, <<70>>, NoData),
      Blob(<<"a", "/", ".", "g", "i", "f">>, <<80>>, NoData),
      Blob(<<"a", "/", "p", ".", "J", "P", "G">>, <<10>>, Data("ok", "RGB", 600, 300)),
      Blob(<<"a", "/", "q", ".", "p", "n", "g">>, <<>>, Data("ok", "P", 100, 50)),
      Blob(<<"a", "/", "w", ".", "w", "e", "b", "p">>, <<50>>, Data("ok", "RGBA", 300, 700)),
      Blob(<<"a", "/", "g", ".", "g", "i", "f">>, <<50>>, Data("truncated", "RGB", 64, 64)),
      Blob(<<"a", "/", "e", ".", "j", "p", "e", "g">>, <<0>>, Data("badheader", "none", 0, 0)) }

RunListingsA ==
    { <<>>,
      << Blob(<<"a", "/", "n", ".", "t", "x", "t">>, <<70>>, NoData) >>,
      << Blob(<<"a", "/", "p", ".", "J", "P", "G">>, <<10>>, Data("ok", "RGB", 600, 300)) >>,
      << Blob(<<"a", "/", "q", ".", "p", "n", "g">>, <<>>, Data("ok", "RGBA", 100, 50)) >>,
      << Blob(<<"a", "/", "g", ".", "g", "i", "f">>, <<50>>, Data("truncated", "RGB", 64, 64)) >>,
      << Blob(<<"a", "/", "e", ".", "j", "p", "e", "g">>, <<0>>, Data("badheader", "none", 0, 0)) >> }

RunListingsB ==
    { <<>>,
      << Blob(<<"b", "/", "p", ".", "j", "p", "g">>, <<10>>, Data("ok", "L", 300, 600)) >>,
      << Blob(<<"b", "/", "p", ".", "j", "p", "g">>, <<10>>, Data("truncated", "P", 300, 600)) >> }

\* Widths and heights of source images: small ones, and the neighbours of the boxes.
Dims ==
    (1..MaxSmallDim) \cup {100, 255, 256, 257, 300, 511, 512, 513, 700, 1000, 1025, 2000}

InitRest ==
    /\ pc = "start"
    /\ identifiers = <<>>
    /\ client = FALSE
    /\ idx = 0
    /\ blobs = <<>>
    /\ blob = NoBlob
    /\ image = NoImage
    /\ ti = 0
    /\ dirs = {}
    /\ files = [k \in {} |-> NoContent]
    /\ log = <<>>
    /\ raised = "none"
    /\ exitStatus = -1

\* Whole runs: a few command lines against a few buckets.
InitRuns ==
    /\ argv_ids \in SeqsUpTo({<<" ">>, <<"a">>, <<"a", "/">>, <<"b">>}, MaxRunIds)
    /\ argv_file \in {NoFile} \cup {[given |-> TRUE, lines |-> q] : q \in {<<>>, << <<"b", " ">> >>}}
    /\ bucket \in {la \o lb : la \in RunListingsA, lb \in RunListingsB}

\* One identifier against every listing of up to MaxBlobs blobs.
InitListings ==
    /\ argv_ids = << <<"a">> >>
    /\ argv_file = NoFile
    /\ bucket \in SeqsUpTo(BlobPool, MaxBlobs)

\* One identifier whose portrait has every size of Dims x Dims.
InitImages ==
    /\ argv_ids = << <<"a">> >>
    /\ argv_file = NoFile
    /\ \E w \in Dims, h \in Dims, m \in {"RGB", "P"} :
           bucket = << Blob(<<"a", "/", "p", ".", "J", "P", "G">>, <<10>>, Data("ok", m, w, h)) >>

Init == (InitRuns \/ InitListings \/ InitImages) /\ InitRest

\* Every command line of up to MaxIds --id values and MaxLines file lines.
InitIds ==
    /\ argv_ids \in SeqsUpTo(RawValues, MaxIds)
    /\ argv_file \in FileArgs(RawValues, MaxLines)
    /\ bucket = <<>>
    /\ InitRest

----------------------------------------------------------------------------
(* The program.                                                            *)

Event(op, id, what) == [op |-> op, id |-> id, what |-> what]

\* A faulty variant of ExitCode: the status is 0 whatever ended the run.
ExitCodeZero(r) == 0

\* sys.exit(main(...)): 0 when main returns, 1 when SystemExit carries a message
\* or an exception is not caught.
ExitCode(r) == IF r = "none" THEN 0 ELSE 1

\* The run ends with exception r.
Raise(r) ==
    /\ raised' = r
    /\ exitStatus' = ExitCode(r)
    /\ pc' = "exit"

\* process_identifier returns: its locals go, the loop moves on.
Return ==
    /\ blobs' = <<>>
    /\ blob' = NoBlob
    /\ image' = NoImage
    /\ ti' = 0
    /\ idx' = idx + 1
    /\ pc' = "loop"

\* main, line 171: build_identifier_list.
BuildIdentifierList ==
    /\ pc = "start"
    /\ LET deduped == Deduped(argv_ids, argv_file)
       IN  \/ /\ NoIdentifiers(deduped)
              /\ Raise("SystemExit")
              /\ UNCHANGED identifiers
           \/ /\ ~NoIdentifiers(deduped)
              /\ identifiers' = deduped
              /\ pc' = "client"
              /\ UNCHANGED <<raised, exitStatus>>
    /\ UNCHANGED <<argv_ids, argv_file, bucket, client, idx, blobs, blob, image,
                   ti, dirs, files, log>>

\* main, line 172: storage.Client().
CreateClient ==
    /\ pc = "client"
    /\ client' = TRUE
    /\ idx' = 1
    /\ pc' = "loop"
    /\ UNCHANGED <<argv_ids, argv_file, bucket, identifiers, blobs, blob, image,
                   ti, dirs, files, log, raised, exitStatus>>

\* main, line 177: the loop is exhausted and main returns 0.
ReturnZero ==
    /\ pc = "loop"
    /\ idx > Len(identifiers)
    /\ pc' = "exit"
    /\ exitStatus' = ExitCode("none")
    /\ UNCHANGED <<argv_ids, argv_file, bucket, identifiers, client, idx, blobs,
                   blob, image, ti, dirs, files, log, raised>>

\* process_identifier, line 144: the list call fails.
ListError ==
    /\ pc = "loop"
    /\ idx <= Len(identifiers)
    /\ log' = Append(log, Event("list", identifiers[idx], ""))
    /\ Raise("list")
    /\ UNCHANGED <<argv_ids, argv_file, bucket, identifiers, client, idx, blobs,
                   blob, image, ti, dirs, files>>

\* A faulty variant of ListNone: the person's directory is made before the listing is looked at.
ListNoneAfterMkdir ==
    /\ pc = "loop"
    /\ idx <= Len(identifiers)
    /\ SelectSeq(ListBlobs(Prefix(identifiers[idx])), KeepBlob) = <<>>
    /\ log' = log \o << Event("list", identifiers[idx], ""),
                        Event("warn", identifiers[idx], "") >>
    /\ dirs' = dirs \cup WithParents(PersonDir(identifiers[idx]))
    /\ Return
    /\ UNCHANGED <<argv_ids, argv_file, bucket, identifiers, client, files,
                   raised, exitStatus>>

\* process_identifier, lines 142-150: no blob passes the filter; a warning, and return.
ListNone ==
    /\ pc = "loop"
    /\ idx <= Len(identifiers)
    /\ SelectSeq(ListBlobs(Prefix(identifiers[idx])), KeepBlob) = <<>>
    /\ log' = log \o << Event("list", identifiers[idx], ""),
                        Event("warn", identifiers[idx], "") >>
    /\ Return
    /\ UNCHANGED <<argv_ids, argv_file, bucket, identifiers, client, dirs, files,
                   raised, exitStatus>>

\* process_identifier, lines 142-157: some blobs pass the filter and one is chosen.
\* (choose_primary_blob returns None only for an empty list, so the second
\* warning, lines 153-155, is taken in no run; it is the ELSE branch here.)
ListSome ==
    /\ pc = "loop"
    /\ idx <= Len(identifiers)
    /\ LET bs == SelectSeq(ListBlobs(Prefix(identifiers[idx])), KeepBlob)
           chosen == ChoosePrimaryBlob(bs)
       IN  /\ bs # <<>>
           /\ IF chosen # NoBlob
              THEN /\ blobs' = bs
                   /\ blob' = chosen
                   /\ pc' = "download"
                   /\ log' = Append(log, Event("list", identifiers[idx], ""))
                   /\ UNCHANGED <<idx, image, ti>>
              ELSE /\ log' = log \o << Event("list", identifiers[idx], ""),
                                       Event("warn", identifiers[idx], "") >>
                   /\ Return
    /\ UNCHANGED <<argv_ids, argv_file, bucket, identifiers, client, dirs, files,
                   raised, exitStatus>>

\* A faulty variant of DownloadImage: a failure is caught per identifier and the loop goes on.
DownloadImageContained ==
    /\ pc = "download"
    /\ log' = Append(log, Event("download", identifiers[idx], ""))
    /\ \/ /\ Return
          /\ UNCHANGED <<raised, exitStatus>>
       \/ /\ blob.data.body = "ok"
          /\ image' = [mode |-> Normalised(blob.data.mode), w |-> blob.data.w,
                       h |-> blob.data.h, body |-> blob.data.body]
          /\ ti' = 1
          /\ pc' = "thumbs"
          /\ UNCHANGED <<idx, blobs, blob, raised, exitStatus>>
    /\ UNCHANGED <<argv_ids, argv_file, bucket, identifiers, client, dirs, files>>

\* download_image, lines 122-127. Image.open reads the header only: a truncated
\* body is met when the pixels are first loaded, in convert() here or in copy()
\* in save_thumbnail.
DownloadImage ==
    /\ pc = "download"
    /\ log' = Append(log, Event("download", identifiers[idx], ""))
    /\ \/ /\ Raise("download")
          /\ UNCHANGED <<idx, blobs, blob, image, ti>>
       \/ /\ \/ blob.data.body = "badheader"
             \/ blob.data.body = "truncated" /\ blob.data.mode \notin {"RGB", "RGBA"}
          /\ Raise("decode")
          /\ UNCHANGED <<idx, blobs, blob, image, ti>>
       \/ /\ blob.data.body # "badheader"
          /\ blob.data.body = "truncated" => blob.data.mode \in {"RGB", "RGBA"}
          /\ image' = [mode |-> Normalised(blob.data.mode), w |-> blob.data.w,
                       h |-> blob.data.h, body |-> blob.data.body]
          /\ ti' = 1
          /\ pc' = "thumbs"
          /\ UNCHANGED <<idx, blobs, blob, raised, exitStatus>>
    /\ UNCHANGED <<argv_ids, argv_file, bucket, identifiers, client, dirs, files>>

\* open(destination, "w+b") and the bytes written: the file holds content c.
WriteFile(key, c) ==
    [k \in DOMAIN files \cup {key} |-> IF k = key THEN c ELSE files[k]]

\* save_thumbnail, lines 130-134, for THUMBNAILS[ti], and the end of the loop of
\* lines 161-164. Image.save opens the destination for writing (an existing file
\* is emptied) before the encoder runs; when the encoder or the write fails, a
\* file that save created is removed again by recent Pillow releases and left
\* behind, incomplete, by older ones; when the open itself fails, what was
\* there stays.
SaveThumbnail ==
    /\ pc = "thumbs"
    /\ LET identifier == identifiers[idx]
           spec == THUMBNAILS[ti]
           destination == Destination(spec, PersonDir(identifier))
           size == ThumbnailSize(image.w, image.h, spec.size)
           partial == [NoContent EXCEPT !.by = identifier]
           written == [by |-> identifier, mode |-> image.mode, w |-> size[1],
                       h |-> size[2], srcw |-> image.w, srch |-> image.h,
                       complete |-> TRUE]
           made == Event("mkdir", identifier, spec.name)
       IN  \/ \* mkdir fails
              /\ Raise("mkdir")
              /\ UNCHANGED <<dirs, files, log, idx, blobs, blob, image, ti>>
           \/ \* image.copy() loads the pixels of a truncated image
              /\ image.body = "truncated"
              /\ dirs' = dirs \cup WithParents(destination.dir)
              /\ log' = Append(log, made)
              /\ Raise("decode")
              /\ UNCHANGED <<files, idx, blobs, blob, image, ti>>
           \/ \* the encoder refuses the mode, or the write fails
              /\ image.body = "ok"
              /\ dirs' = dirs \cup WithParents(destination.dir)
              /\ log' = Append(log, made)
              /\ \/ ~JpegWritable(image.mode) /\ Raise("encoder")
                 \/ JpegWritable(image.mode) /\ Raise("write")
              /\ \/ files' = WriteFile(destination, partial)
                 \/ files' = files
              /\ UNCHANGED <<idx, blobs, blob, image, ti>>
           \/ \* the thumbnail is written
              /\ image.body = "ok"
              /\ JpegWritable(image.mode)
              /\ dirs' = dirs \cup WithParents(destination.dir)
              /\ files' = WriteFile(destination, written)
              /\ log' = log \o << made, Event("save", identifier, spec.name) >>
              /\ IF ti < Len(THUMBNAILS)
                 THEN /\ ti' = ti + 1
                      /\ UNCHANGED <<pc, idx, blobs, blob, image>>
                 ELSE Return
              /\ UNCHANGED <<raised, exitStatus>>
    /\ UNCHANGED <<argv_ids, argv_file, bucket, identifiers, client>>

Next ==
    \/ BuildIdentifierList
    \/ CreateClient
    \/ ReturnZero
    \/ ListError
    \/ ListNone
    \/ ListSome
    \/ DownloadImage
    \/ SaveThumbnail

Spec == Init /\ [][Next]_vars

\* Identifier resolution alone, over every command line of InitIds.
NextIds == BuildIdentifierList

SpecIds == InitIds /\ [][NextIds]_vars

----------------------------------------------------------------------------
(* Vocabulary of the properties.                                           *)

\* The values both sources supply, stripped, the empty ones dropped.
SuppliedValues ==
    {Strip(v) : v \in Range(argv_ids) \cup
                      (IF argv_file.given THEN Range(argv_file.lines) ELSE {})}
        \ {<<>>}

PermutationsOf(q) ==
    {[i \in DOMAIN q |-> q[f[i]]] : f \in Permutations(DOMAIN q)}

Without(q, i) == SubSeq(q, 1, i - 1) \o SubSeq(q, i + 1, Len(q))

CountOps(op, id) ==
    Cardinality({i \in DOMAIN log : log[i].op = op /\ log[i].id = id})

\* The thumbnails completely written for an identifier in this run.
Saved(id) == {log[i].what : i \in {n \in DOMAIN log : log[n].op = "save" /\ log[n].id = id}}

\* Processing of the identifier at position k has ended: the loop has moved
\* past it, or an exception left it.
Ended(k) == k < idx \/ (k = idx /\ pc = "exit" /\ raised # "none")

\* The blobs the store lists for an identifier.
Listing(id) == ListBlobs(Prefix(id))

\* An eligible object: not a directory marker, and an allowed extension.
Eligible(b) ==
    /\ ~EndsWithSlash(b.name)
    /\ Lower(PathSuffix(b.name)) \in IMAGE_EXTENSIONS

BothThumbnails == {"cover", "profile"}

----------------------------------------------------------------------------
(* C1: when some supplied value is non-empty after trimming,               *)
(* build_identifier_list returns exactly the trimmed non-empty values of   *)
(* both sources, without duplicates, in ascending order; permuting the     *)
(* --id values or the file lines, or moving a value from one source to the *)
(* other, gives the same list. (When none is, it returns nothing.)         *)
C1_SortedUnion ==
    /\ pc # "start" => (pc = "client" <=> SuppliedValues # {})
    /\ pc = "client" =>
        /\ Range(identifiers) = SuppliedValues
        /\ \A i, j \in DOMAIN identifiers :
               i < j => LexLess(identifiers[i], identifiers[j])
        /\ \A p \in PermutationsOf(argv_ids) :
               Deduped(p, argv_file) = identifiers
        /\ \A p \in PermutationsOf(argv_file.lines) :
               Deduped(argv_ids, [argv_file EXCEPT !.lines = p]) = identifiers
        /\ \A i \in DOMAIN argv_ids :
               Deduped(Without(argv_ids, i),
                       [given |-> TRUE,
                        lines |-> Append(argv_file.lines, argv_ids[i])]) = identifiers
        /\ \A i \in DOMAIN argv_file.lines :
               Deduped(Append(argv_ids, argv_file.lines[i]),
                       [argv_file EXCEPT !.lines = Without(argv_file.lines, i)])
                   = identifiers

\* Both sources supply values, out of order, padded and repeated.
C1_Witness ==
    /\ pc = "client"
    /\ Len(identifiers) = 3
    /\ Len(argv_ids) = 2
    /\ argv_file.given /\ Len(argv_file.lines) = 2
    /\ argv_ids[1] = <<"b">>
    /\ <<" ", "a", "\t">> \in Range(argv_file.lines)

----------------------------------------------------------------------------
(* C2: when no source supplies a value that is non-empty after trimming,   *)
(* the run ends with SystemExit and a non-zero status, and in no state of  *)
(* it has the client been created, a list or download call been issued,   *)
(* or a file or directory been written.                                    *)
C2_FailsBeforeNetwork ==
    SuppliedValues = {} =>
        /\ pc \in {"start", "exit"}
        /\ pc = "exit" => raised = "SystemExit" /\ exitStatus > 0
        /\ ~client
        /\ log = <<>>
        /\ dirs = {}
        /\ DOMAIN files = {}

\* The run has ended on blank --id values and an empty file.
C2_Witness ==
    /\ pc = "exit"
    /\ raised = "SystemExit"
    /\ argv_ids # <<>>
    /\ argv_file.given
    /\ ~client

----------------------------------------------------------------------------
(* C3: the object process_identifier downloads is an eligible object of    *)
(* the identifier's listing whose size (None counted as 0) is at least the *)
(* size of every eligible object of the listing; no other object is        *)
(* downloaded.                                                             *)
C3_LargestEligible ==
    /\ pc \in {"download", "thumbs"} =>
        /\ blob \in Range(Listing(identifiers[idx]))
        /\ Eligible(blob)
        /\ \A b \in Range(Listing(identifiers[idx])) :
               Eligible(b) => SizeKey(b) <= SizeKey(blob)
    /\ \A k \in DOMAIN identifiers :
           CountOps("download", identifiers[k]) > 0 =>
               \E b \in Range(Listing(identifiers[k])) : Eligible(b)

\* A listing in which the chosen blob is not the first, and a larger object
\* that is not eligible is passed over.
C3_Witness ==
    /\ pc = "thumbs"
    /\ Len(blobs) = 2
    /\ blob = blobs[2]
    /\ \E b \in Range(Listing(identifiers[idx])) :
           ~Eligible(b) /\ SizeKey(b) > SizeKey(blob)

----------------------------------------------------------------------------
(* C4: for an identifier whose listing holds no eligible object,           *)
(* process_identifier records a warning, issues no download, makes no      *)
(* directory and writes no file; what is on disk is as it was, and the run *)
(* goes on with the next identifier (or, after the last, ends normally).   *)
NoneEligible(id) == \A b \in Range(Listing(id)) : ~Eligible(b)

\* Every directory that exists was made by a save_thumbnail of some identifier.
MadeBySave(d) ==
    \E n \in DOMAIN log :
        log[n].op = "mkdir" /\ d \in WithParents(PersonDir(log[n].id))

C4_WarnAndContinue ==
    /\ \A k \in DOMAIN identifiers :
           NoneEligible(identifiers[k]) /\ Ended(k) /\ raised # "list" =>
               /\ k < idx
               /\ CountOps("list", identifiers[k]) = 1
               /\ CountOps("warn", identifiers[k]) = 1
               /\ CountOps("download", identifiers[k]) = 0
               /\ CountOps("mkdir", identifiers[k]) = 0
               /\ Saved(identifiers[k]) = {}
               /\ \A f \in DOMAIN files : files[f].by # identifiers[k]
    /\ \A d \in dirs : MadeBySave(d)
    /\ log # <<>> /\ log[Len(log)].op = "warn" =>
           /\ idx \in 2..(Len(identifiers) + 1)
           /\ identifiers[idx - 1] = log[Len(log)].id
           /\ raised = "none"
           /\ \/ pc = "loop" /\ exitStatus = -1
              \/ pc = "exit" /\ idx > Len(identifiers) /\ exitStatus = 0

\* After a warning for the first identifier, the second has its thumbnails.
C4_Witness ==
    /\ Len(identifiers) >= 2
    /\ NoneEligible(identifiers[1])
    /\ Listing(identifiers[1]) # <<>>
    /\ CountOps("warn", identifiers[1]) = 1
    /\ Saved(identifiers[2]) = BothThumbnails

----------------------------------------------------------------------------
(* C5: every identifier whose selected object was downloaded and decoded,  *)
(* whatever its colour mode, has exactly cover.jpg and profile.jpg written *)
(* as JPEG, and its processing ends without an encoder error. (Runs in     *)
(* which the filesystem fails are set aside.)                              *)
DecodedOk(k) ==
    \/ k < idx /\ CountOps("download", identifiers[k]) > 0
    \/ k = idx /\ image # NoImage /\ image.body = "ok"

C5_TwoJpegsWhateverTheMode ==
    \A k \in DOMAIN identifiers :
        Ended(k) /\ DecodedOk(k) /\ raised \notin {"mkdir", "write"} =>
            /\ Saved(identifiers[k]) = BothThumbnails
            /\ raised # "encoder"

----------------------------------------------------------------------------
(* C6: every thumbnail written fits its box (512 for cover.jpg, 256 for    *)
(* profile.jpg) and is no larger than the source image in either           *)
(* dimension; each is made from the decoded source image, which producing  *)
(* the thumbnails leaves as it was decoded.                                *)
Min(a, b) == IF a <= b THEN a ELSE b

BoxOf(name) == IF name = "cover.jpg" THEN 512 ELSE 256

C6_ThumbnailsFit ==
    /\ \A f \in DOMAIN files :
           files[f].complete =>
               /\ f.name \in {"cover.jpg", "profile.jpg"}
               /\ files[f].w >= 1 /\ files[f].w <= Min(files[f].srcw, BoxOf(f.name))
               /\ files[f].h >= 1 /\ files[f].h <= Min(files[f].srch, BoxOf(f.name))
               /\ \E b \in Range(Listing(files[f].by)) :
                      b.data.w = files[f].srcw /\ b.data.h = files[f].srch
    /\ pc = "thumbs" => image.w = blob.data.w /\ image.h = blob.data.h

\* A source between the two boxes: the cover keeps its size, the profile shrinks.
C6_Witness ==
    \E f, g \in DOMAIN files :
        /\ f.dir = g.dir /\ f.name = "cover.jpg" /\ g.name = "profile.jpg"
        /\ files[f].complete /\ files[g].complete
        /\ files[f].w = files[f].srcw /\ files[f].h = files[f].srch
        /\ files[g].srcw = files[f].srcw /\ files[g].srcw > 256
        /\ files[g].w = 256 /\ files[g].h < files[g].srch

----------------------------------------------------------------------------
(* C7: the exit status is 0 exactly when at least one identifier resolved  *)
(* and nothing raised, that is, every identifier ended with a warning or   *)
(* with both thumbnails; otherwise it is non-zero.                         *)
Completed(id) == CountOps("warn", id) = 1 \/ Saved(id) = BothThumbnails

C7_ExitStatus ==
    /\ pc = "exit" <=> exitStatus # -1
    /\ pc = "exit" =>
        /\ exitStatus \in {0, 1}
        /\ exitStatus = 0 <=>
               /\ identifiers # <<>>
               /\ \A k \in DOMAIN identifiers : Completed(identifiers[k])
        /\ exitStatus = 0 <=> raised = "none"
    /\ raised # "none" => pc = "exit"

\* A run of two identifiers that only produced warnings ends with status 0.
C7_Witness ==
    /\ pc = "exit"
    /\ exitStatus = 0
    /\ Len(identifiers) >= 2
    /\ \A k \in DOMAIN identifiers : CountOps("warn", identifiers[k]) = 1

----------------------------------------------------------------------------
(* C8: identifiers are processed one at a time in ascending order, each at *)
(* most once, and the loop passes an identifier only when it is complete;  *)
(* when the download or decode of the identifier at position idx fails the *)
(* run ends there: nothing was or will be done for a later identifier, no  *)
(* file is written for the failing one, and every thumbnail written        *)
(* before is still on disk.                                                *)
Pos(id) == CHOOSE k \in DOMAIN identifiers : identifiers[k] = id

StillOnDisk(id, what) ==
    \E f \in DOMAIN files :
        /\ f.dir = PersonDir(id)
        /\ f.name = what \o ".jpg"
        /\ files[f].complete

C8_SequentialAbort ==
    /\ \A i, j \in DOMAIN identifiers :
           i < j => LexLess(identifiers[i], identifiers[j])
    /\ \A m, n \in DOMAIN log : m < n => Pos(log[m].id) <= Pos(log[n].id)
    /\ \A n \in DOMAIN log : Pos(log[n].id) <= idx
    /\ \A k \in DOMAIN identifiers :
           /\ CountOps("list", identifiers[k]) <= 1
           /\ CountOps("download", identifiers[k]) <= 1
           /\ k < idx => Completed(identifiers[k])
    /\ pc = "exit" => ~ENABLED Next
    /\ raised \in {"download", "decode"} =>
           /\ pc = "exit"
           /\ Saved(identifiers[idx]) = {}
           /\ \A f \in DOMAIN files : files[f].by # identifiers[idx]
           /\ \A n \in DOMAIN log :
                  log[n].op = "save" => StillOnDisk(log[n].id, log[n].what)

\* The second of three identifiers fails to download after the first was saved.
C8_Witness ==
    /\ raised = "download"
    /\ Len(identifiers) = 3
    /\ idx = 2
    /\ Saved(identifiers[1]) = BothThumbnails
    /\ CountOps("list", identifiers[3]) = 0

----------------------------------------------------------------------------
(* C9, as stated: whenever processing of an identifier has ended, normally *)
(* or by a warning or by any error, at most one object was downloaded for  *)
(* it and the thumbnails written for it are none or both.                  *)
C9_NoneOrBoth ==
    \A k \in DOMAIN identifiers :
        Ended(k) =>
            /\ CountOps("download", identifiers[k]) <= 1
            /\ Saved(identifiers[k]) \in {{}, BothThumbnails}

(* C9, amended: whenever processing of an identifier has ended, at most    *)
(* one object was downloaded for it and the thumbnails written for it are  *)
(* none, both, or cover.jpg alone; cover.jpg alone only when the directory *)
(* creation or the write for profile.jpg raised, which ends the run; an    *)
(* identifier the loop has passed has none or both.                        *)
C9_NoneBothOrCoverOnError ==
    \A k \in DOMAIN identifiers :
        Ended(k) =>
            /\ CountOps("download", identifiers[k]) <= 1
            /\ Saved(identifiers[k]) \in {{}, {"cover"}, BothThumbnails}
            /\ k < idx => Saved(identifiers[k]) \in {{}, BothThumbnails}
            /\ Saved(identifiers[k]) = {"cover"} =>
                   /\ k = idx
                   /\ pc = "exit"
                   /\ raised \in {"mkdir", "write"}
                   /\ THUMBNAILS[ti].name = "profile"

\* The write of profile.jpg failed after cover.jpg was written.
C9_Witness ==
    /\ pc = "exit"
    /\ raised = "write"
    /\ Saved(identifiers[idx]) = {"cover"}

----------------------------------------------------------------------------
(* C10: any two distinct identifiers of the resolved list are listed under *)
(* distinct prefixes and write to distinct directories, so that no         *)
(* thumbnail of one is overwritten by another, also when they differ only  *)
(* by trailing '/' characters.                                             *)
C10_DistinctPrefixesAndDirs ==
    /\ \A i, j \in DOMAIN identifiers :
           i # j =>
               /\ Prefix(identifiers[i]) # Prefix(identifiers[j])
               /\ PersonDir(identifiers[i]) # PersonDir(identifiers[j])
    /\ \A m, n \in DOMAIN log :
           log[m].op = "save" /\ log[n].op = "save" /\ log[m].id # log[n].id =>
               PersonDir(log[m].id) # PersonDir(log[n].id)

=============================================================================
